---- MODULE Spec2Model ----
(***************************************************************************)
(* Locker reservation back end: the reserve / extend / release handlers of *)
(* src/src/controllers/lockerController.ts running concurrently against    *)
(* the PostgreSQL store of src/src/config/database.sql.                    *)
(*                                                                         *)
(* The store is modelled at READ COMMITTED (the PostgreSQL default, the    *)
(* handlers set no isolation level): the variables lockers, reservations   *)
(* and history hold the committed rows; a statement sent on a pooled       *)
(* client between BEGIN and COMMIT is buffered in txn[p] and holds the row *)
(* lock of the row it updates until COMMIT or ROLLBACK; a statement sent   *)
(* through db.query runs in its own transaction and is applied at once.    *)
(* Every await of a handler is one step, so handlers interleave exactly    *)
(* at their store round-trips.                                             *)
(***************************************************************************)
EXTENDS Integers, Sequences, FiniteSets, TLC

\* ------------------------------------------------------------------ bounds
NumProcs == 2     \* requests that can be in flight at the same time
MaxOps == 3       \* requests started in one behaviour
MaxRes == 2       \* reservations created in one behaviour
MaxTime == 1      \* clock ticks (a tick is half an hour)
MaxFaults == 1    \* store failures injected in one behaviour
MaxCodes == 2     \* verification codes generated in one behaviour
MaxOtpTime == 2   \* ticks of the verification service's clock

\* ------------------------------------------------------------- universes
Procs == 1..NumProcs
Users == {"u1", "u2"}
Lockers == {"L1", "L2"}
AccessCodes == {100000, 100001}
ResIds == 1..MaxRes

\* One hour in clock ticks.
Hour == 2
\* locker_sizes.base_price of the size every modelled locker has.
BasePrice == 10

\* A nullable column / an absent request field: <<>> is NULL, <<v>> is v.
Null == <<>>
Some(v) == <<v>>
IsNull(o) == o = <<>>
Val(o) == o[1]

\* Request body values: absent, or a number given in half hours (<<3>> is 1.5).
DurationInputs == {Null, Some(0), Some(1), Some(2)}
HoursInputs == {Null, Some(0), Some(2), Some(3), Some(-2)}

\* JavaScript !v on a numeric request field: undefined and 0 are falsy.
Falsy(o) == IsNull(o) \/ Val(o) = 0

\* JavaScript !v on an id (a non-empty string): only undefined is falsy.
Missing(o) == IsNull(o)

\* JavaScript parseInt on a number of hours: the fraction is dropped.
ParseInt(o) == IF Val(o) >= 0 THEN Val(o) \div Hour ELSE -((-Val(o)) \div Hour)

\* Math.ceil of a number of ticks expressed in hours.
CeilHours(t) == IF t >= 0 THEN (t + Hour - 1) \div Hour ELSE -((-t) \div Hour)

\* ----------------------------------------------------------------- state
VARIABLES
  lockers,        \* lockers.status, committed, by locker_id
  reservations,   \* reservations rows, committed; reservation_id is the index
  history,        \* reservation_history rows, committed
  now,            \* the clock, in ticks
  pc,             \* per request slot: the await the handler is at
  req,            \* per request slot: the handler and its inputs
  loc,            \* per request slot: the handler's local variables
  txn,            \* per request slot: statements of its open transaction
  result,         \* per request slot: the response sent
  ops,            \* history variable: requests started so far
  faults,         \* history variable: store failures injected so far
  conc,           \* history variable: slots that ran while this request did
  codes,          \* verification_codes rows, committed
  otpNow,         \* the clock of the verification service, in code lifetimes
  vpc,            \* per verify slot: the await verifyOTP is at
  vreq,           \* per verify slot: the arguments of the call
  vloc,           \* per verify slot: result.rows[0].code_id
  vresult,        \* per verify slot: the boolean returned
  issued,         \* history variable: codes generated so far
  accepted,       \* history variable: per code_id, the verify calls it made true
  emitted,        \* the locker ids of the Socket.IO events emitted so far
  conn            \* history variable, per request slot: what the request did
                  \* with its pooled connection

vars == <<lockers, reservations, history, now, pc, req, loc, txn, result,
          ops, faults, conc, codes, otpNow, vpc, vreq, vloc, vresult, issued,
          accepted, emitted, conn>>

\* The state of the verification service, which the locker handlers never touch,
\* and the state of the locker handlers, which the verification service never
\* touches.  Neither emits a Socket.IO event, and only the steps of a request
\* that deal with its connection change conn: they leave verification alone.
verification == <<codes, otpNow, vpc, vreq, vloc, vresult, issued, accepted,
                  emitted>>
otpvars == <<codes, otpNow, vpc, vreq, vloc, vresult, issued, accepted, emitted,
             conn>>
lockervars == <<lockers, reservations, history, now, pc, req, loc, txn, result,
                conc, emitted, conn>>

dbvars == <<lockers, reservations, history>>

NoReq == [kind |-> "none"]
\* A request that has not asked the pool for a connection: the connections it
\* acquired and released, the transactions it began, and the COMMITs and
\* ROLLBACKs it sent.
NoConn == [acquired |-> 0, begun |-> 0, commits |-> 0, rollbacks |-> 0,
           released |-> 0]
NoLoc == [none |-> TRUE]

InFlight(p) == pc[p] \notin {"idle", "done"}

\* ----------------------------------------------------------------- store
\* The three tables as one value, to apply statements to.
DB == [lockers |-> lockers, reservations |-> reservations, history |-> history]

\* A reservations row as INSERTed by reserve: the columns the INSERT does not
\* name take their defaults (extension_count 0, the others NULL).
NewReservation(u, l, start, end, cost, code) ==
  [user_id |-> u, locker_id |-> l, start_time |-> start,
   expected_end_time |-> end, actual_end_time |-> Null, status |-> "ACTIVE",
   total_cost |-> cost, access_code |-> code, extension_count |-> 0,
   extended_end_time |-> Null, extension_cost |-> Null]

\* The statements the handlers send.  key names the existing row a statement
\* updates (and locks); an INSERT locks no existing row.
UpdateLockerStatus(l, s) ==
  [tbl |-> "lockers", op |-> "status", key |-> l, val |-> s]
InsertReservation(row) ==
  [tbl |-> "reservations", op |-> "insert", key |-> 0, val |-> row]
UpdateReservationCompleted(id, at) ==
  [tbl |-> "reservations", op |-> "complete", key |-> id, val |-> at]
UpdateReservationExtended(id, end, cost, total) ==
  [tbl |-> "reservations", op |-> "extend", key |-> id,
   val |-> [end |-> end, cost |-> cost, total |-> total]]
InsertHistory(row) ==
  [tbl |-> "reservation_history", op |-> "insert", key |-> 0, val |-> row]

\* COALESCE(extension_cost, 0)
Coalesce0(o) == IF IsNull(o) THEN 0 ELSE Val(o)

\* The statements with an extend UPDATE that left extension_count alone.
ApplyWrite_ExtensionNotCounted(d, w) ==
  CASE w.op = "status" ->
         IF w.key \in DOMAIN d.lockers
           THEN [d EXCEPT !.lockers[w.key] = w.val]
           ELSE d
    [] w.op = "insert" /\ w.tbl = "reservations" ->
         [d EXCEPT !.reservations = Append(@, w.val)]
    [] w.op = "insert" /\ w.tbl = "reservation_history" ->
         [d EXCEPT !.history = Append(@, w.val)]
    [] w.op = "complete" ->
         IF w.key \in DOMAIN d.reservations
           THEN [d EXCEPT !.reservations[w.key] =
                   [@ EXCEPT !.status = "COMPLETED",
                             !.actual_end_time = Some(w.val)]]
           ELSE d
    [] w.op = "extend" ->
         IF w.key \in DOMAIN d.reservations
           THEN [d EXCEPT !.reservations[w.key] =
                   [@ EXCEPT !.extended_end_time = Some(w.val.end),
                             !.extension_cost = Some(Coalesce0(@) + w.val.cost),
                             !.total_cost = w.val.total]]
           ELSE d

\* The effect of one statement on the tables.  An UPDATE whose WHERE matches
\* no row changes nothing.
ApplyWrite(d, w) ==
  CASE w.op = "status" ->
         IF w.key \in DOMAIN d.lockers
           THEN [d EXCEPT !.lockers[w.key] = w.val]
           ELSE d
    [] w.op = "insert" /\ w.tbl = "reservations" ->
         [d EXCEPT !.reservations = Append(@, w.val)]
    [] w.op = "insert" /\ w.tbl = "reservation_history" ->
         [d EXCEPT !.history = Append(@, w.val)]
    [] w.op = "complete" ->
         IF w.key \in DOMAIN d.reservations
           THEN [d EXCEPT !.reservations[w.key] =
                   [@ EXCEPT !.status = "COMPLETED",
                             !.actual_end_time = Some(w.val)]]
           ELSE d
    [] w.op = "extend" ->
         IF w.key \in DOMAIN d.reservations
           THEN [d EXCEPT !.reservations[w.key] =
                   [@ EXCEPT !.extended_end_time = Some(w.val.end),
                             !.extension_count = @ + 1,
                             !.extension_cost = Some(Coalesce0(@) + w.val.cost),
                             !.total_cost = w.val.total]]
           ELSE d

RECURSIVE ApplyAll(_, _)
ApplyAll(d, ws) ==
  IF ws = <<>> THEN d ELSE ApplyAll(ApplyWrite(d, Head(ws)), Tail(ws))

SetDB(d) ==
  /\ lockers' = d.lockers
  /\ reservations' = d.reservations
  /\ history' = d.history

\* A store that locked the whole table a statement updates.
LockedByOther_TableLock(p, w) ==
  /\ w.op # "insert"
  /\ \E q \in Procs \ {p} : \E i \in DOMAIN txn[q] :
       /\ txn[q][i].tbl = w.tbl
       /\ txn[q][i].op # "insert"

\* The row a statement updates is locked by another open transaction.
LockedByOther(p, w) ==
  /\ w.op # "insert"
  /\ \E q \in Procs \ {p} : \E i \in DOMAIN txn[q] :
       /\ txn[q][i].tbl = w.tbl
       /\ txn[q][i].op # "insert"
       /\ txn[q][i].key = w.key

\* client.query(...) between BEGIN and COMMIT: waits for the row lock, then the
\* statement is part of the open transaction, invisible to the others.
ClientQuery(p, w) ==
  /\ ~LockedByOther(p, w)
  /\ txn' = [txn EXCEPT ![p] = Append(@, w)]
  /\ UNCHANGED dbvars

\* db.query(...): pool.query runs the statement in a transaction of its own.
PoolQuery(p, w) ==
  /\ ~LockedByOther(p, w)
  /\ SetDB(ApplyWrite(DB, w))
  /\ UNCHANGED txn

\* ------------------------------------------------------------- responses
\* What is kept of a request once it is answered: the handler and the id of
\* the locker or reservation it was about.
Answered(r) ==
  IF r.kind = "reserve"
    THEN [kind |-> r.kind, lockerId |-> r.lockerId]
    ELSE IF r.kind \in {"extend", "release"}
      THEN [kind |-> r.kind, reservationId |-> r.reservationId]
      ELSE [kind |-> r.kind]

\* res.status(...).json(...): the handler is over.  The response stays on the
\* slot until the next request arrives.
Respond(p, r) ==
  /\ pc' = [pc EXCEPT ![p] = "done"]
  /\ result' = [result EXCEPT ![p] = r]
  /\ loc' = [loc EXCEPT ![p] = NoLoc]
  /\ req' = [req EXCEPT ![p] = Answered(@)]

Goto(p, label) ==
  /\ pc' = [pc EXCEPT ![p] = label]
  /\ UNCHANGED <<result, req>>

\* A request arrives: it takes the first free slot and starts at `label`, or
\* is answered `answer` at once when label is "done".  The responses of the
\* requests answered before it are dropped.
Arrive(p, r, label, answer) ==
  /\ ~InFlight(p)
  /\ \A q \in Procs : q < p => InFlight(q)
  /\ ops < MaxOps
  /\ ops' = ops + 1
  /\ pc' = [q \in Procs |->
              IF q = p THEN label ELSE IF InFlight(q) THEN pc[q] ELSE "idle"]
  /\ req' = [q \in Procs |->
               IF q = p THEN (IF label = "done" THEN Answered(r) ELSE r)
               ELSE IF InFlight(q) THEN req[q] ELSE NoReq]
  /\ result' = [q \in Procs |->
                  IF q = p THEN answer
                  ELSE IF InFlight(q) THEN result[q] ELSE "none"]
  /\ conc' = [q \in Procs |->
                IF q = p THEN {x \in Procs \ {p} : InFlight(x)}
                ELSE IF InFlight(q) THEN conc[q] \cup {p} ELSE {}]
  /\ loc' = [q \in Procs |-> IF InFlight(q) THEN loc[q] ELSE NoLoc]
  /\ conn' = [q \in Procs |-> IF q # p /\ InFlight(q) THEN conn[q] ELSE NoConn]

\* --------------------------------------------------------------- reserve
\* reserveLocker, entry: the body is read and validated before any await.
ReserveStart(p, u, l, d) ==
  /\ Cardinality({q \in Procs : InFlight(q) /\ req[q].kind = "reserve"})
       + Len(reservations) < MaxRes
  /\ LET r == [kind |-> "reserve", userId |-> u, lockerId |-> l, duration |-> d]
     IN IF Missing(l) \/ Falsy(d)
          THEN Arrive(p, r, "done", "InvalidInput")
          ELSE Arrive(p, r, "r_select", "none")
  /\ UNCHANGED <<dbvars, now, txn, faults>>
  /\ UNCHANGED verification

\* SELECT ... WHERE l.locker_id = $1 AND l.status = 'AVAILABLE', through
\* db.query: it reads the committed row and takes no lock.
ReserveSelect(p) ==
  /\ pc[p] = "r_select"
  /\ LET l == Val(req[p].lockerId)
         rows == l \in DOMAIN lockers /\ lockers[l] = "AVAILABLE"
         durationHours == ParseInt(req[p].duration)
     IN IF ~rows
          THEN Respond(p, "Unavailable")
          ELSE /\ loc' = [loc EXCEPT ![p] =
                            [durationHours |-> durationHours,
                             totalCost |-> BasePrice * durationHours]]
               /\ Goto(p, "connect")
  /\ UNCHANGED <<dbvars, now, txn, ops, faults, conc>>
  /\ UNCHANGED otpvars

\* A reserve whose UPDATE of the locker row were sent through db.query, outside
\* the transaction: a ROLLBACK would not undo it.
ReserveUpdateLocker_OutsideTransaction(p) ==
  /\ pc[p] = "r_update"
  /\ PoolQuery(p, UpdateLockerStatus(Val(req[p].lockerId), "OCCUPIED"))
  /\ loc' = [loc EXCEPT ![p] =
               [durationHours |-> @.durationHours, totalCost |-> @.totalCost,
                lockerBefore |-> lockers[Val(req[p].lockerId)]]]
  /\ Goto(p, "r_insert")
  /\ UNCHANGED <<now, ops, faults, conc>>
  /\ UNCHANGED otpvars

\* UPDATE lockers SET status = 'OCCUPIED' WHERE locker_id = $2, on the client.
\* lockerBefore is a history value: the committed status the UPDATE overwrites.
ReserveUpdateLocker(p) ==
  /\ pc[p] = "r_update"
  /\ ClientQuery(p, UpdateLockerStatus(Val(req[p].lockerId), "OCCUPIED"))
  /\ loc' = [loc EXCEPT ![p] =
               [durationHours |-> @.durationHours, totalCost |-> @.totalCost,
                lockerBefore |-> lockers[Val(req[p].lockerId)]]]
  /\ Goto(p, "r_insert")
  /\ UNCHANGED <<now, ops, faults, conc>>
  /\ UNCHANGED otpvars

\* Math.floor(100000 + Math.random() * 900000): any code.  Codes are only ever
\* compared for equality, so the draws that matter are a code some reservation
\* (stored, or inserted by an open transaction) already has, or one new code.
CodeDraws ==
  LET used == {reservations[i].access_code : i \in DOMAIN reservations}
                \cup UNION {{txn[q][i].val.access_code :
                               i \in {j \in DOMAIN txn[q] : txn[q][j].op = "insert"}} :
                             q \in {x \in Procs : req[x].kind = "reserve"}}
      new == AccessCodes \ used
  IN used \cup {c \in new : \A d \in new : c <= d}

\* The access code and the two dates are taken, then the INSERT is sent.
ReserveInsert(p) ==
  /\ pc[p] = "r_insert"
  /\ \E accessCode \in CodeDraws :
       LET startTime == now
           endTime == now + loc[p].durationHours * Hour
           row == NewReservation(req[p].userId, Val(req[p].lockerId), startTime,
                                 endTime, loc[p].totalCost, accessCode)
       IN /\ ClientQuery(p, InsertReservation(row))
          /\ loc' = [loc EXCEPT ![p] =
                       [expiresAt |-> endTime, accessCode |-> accessCode,
                        lockerBefore |-> @.lockerBefore]]
  /\ Goto(p, "commit")
  /\ UNCHANGED <<now, ops, faults, conc>>
  /\ UNCHANGED otpvars

\* ------------------------------------------------- transaction plumbing
\* db.pool.connect()
Connect(p) ==
  /\ pc[p] = "connect"
  /\ Goto(p, "begin")
  /\ UNCHANGED <<dbvars, now, loc, txn, ops, faults, conc>>
  /\ conn' = [conn EXCEPT ![p].acquired = @ + 1]
  /\ UNCHANGED verification

\* client.query('BEGIN'): NOW() is the time the transaction started.
Begin(p) ==
  /\ pc[p] = "begin"
  /\ loc' = IF req[p].kind = "release"
              THEN [loc EXCEPT ![p].txStart = now]
              ELSE loc
  /\ Goto(p, IF req[p].kind = "reserve" THEN "r_update" ELSE "l_complete")
  /\ UNCHANGED <<dbvars, now, txn, ops, faults, conc>>
  /\ conn' = [conn EXCEPT ![p].begun = @ + 1]
  /\ UNCHANGED verification

\* client.query('COMMIT'), the 200 response and client.release(): what the
\* transaction wrote becomes visible at once and its row locks are dropped.
Commit(p) ==
  /\ pc[p] = "commit"
  /\ SetDB(ApplyAll(DB, txn[p]))
  /\ txn' = [txn EXCEPT ![p] = <<>>]
  /\ Respond(p, "OK")
  /\ UNCHANGED <<now, ops, faults, conc>>
  /\ conn' = [conn EXCEPT ![p].commits = @ + 1, ![p].released = @ + 1]
  /\ UNCHANGED verification

\* A handler without the finally block: after the ROLLBACK the connection is
\* not given back to the pool.
Rollback_NotReleased(p) ==
  /\ pc[p] = "rollback"
  /\ txn' = [txn EXCEPT ![p] = <<>>]
  /\ pc' = [pc EXCEPT ![p] = "done"]
  /\ result' = [result EXCEPT ![p] = "Error"]
  /\ req' = [req EXCEPT ![p] = Answered(@)]
  /\ loc' = [loc EXCEPT ![p] = [undone |-> Len(txn[p])]]
  /\ UNCHANGED <<dbvars, now, ops, faults, conc>>
  /\ conn' = [conn EXCEPT ![p].rollbacks = @ + 1]
  /\ UNCHANGED verification

\* catch: client.query('ROLLBACK'), client.release(), and the outer catch's 500.
\* The statements of the transaction are dropped with their row locks; the slot
\* keeps how many there were (a history value).
Rollback(p) ==
  /\ pc[p] = "rollback"
  /\ txn' = [txn EXCEPT ![p] = <<>>]
  /\ pc' = [pc EXCEPT ![p] = "done"]
  /\ result' = [result EXCEPT ![p] = "Error"]
  /\ req' = [req EXCEPT ![p] = Answered(@)]
  /\ loc' = [loc EXCEPT ![p] = [undone |-> Len(txn[p])]]
  /\ UNCHANGED <<dbvars, now, ops, faults, conc>>
  /\ conn' = [conn EXCEPT ![p].rollbacks = @ + 1, ![p].released = @ + 1]
  /\ UNCHANGED verification

\* A handler whose catch let the error of a failed ROLLBACK escape: the request
\* is left without a response.
RollbackFails_Unanswered(p) ==
  /\ pc[p] = "rollback"
  /\ txn' = [txn EXCEPT ![p] = <<>>]
  /\ pc' = [pc EXCEPT ![p] = "failed"]
  /\ loc' = [loc EXCEPT ![p] = [undone |-> Len(txn[p]), rollbackFailed |-> TRUE]]
  /\ UNCHANGED <<dbvars, now, req, result, ops, faults, conc>>
  /\ conn' = [conn EXCEPT ![p].rollbacks = @ + 1, ![p].released = @ + 1]
  /\ UNCHANGED verification

\* catch: client.query('ROLLBACK') rejects, as it does when the connection is
\* lost; the server then aborts the transaction by itself.  The catch block
\* throws, finally runs client.release(), and the outer catch answers 500.
RollbackFails(p) ==
  /\ pc[p] = "rollback"
  /\ txn' = [txn EXCEPT ![p] = <<>>]
  /\ pc' = [pc EXCEPT ![p] = "done"]
  /\ result' = [result EXCEPT ![p] = "Error"]
  /\ req' = [req EXCEPT ![p] = Answered(@)]
  /\ loc' = [loc EXCEPT ![p] = [undone |-> Len(txn[p]), rollbackFailed |-> TRUE]]
  /\ UNCHANGED <<dbvars, now, ops, faults, conc>>
  /\ conn' = [conn EXCEPT ![p].rollbacks = @ + 1, ![p].released = @ + 1]
  /\ UNCHANGED verification

\* ---------------------------------------------------------------- extend
\* extendReservation, entry.
ExtendStart(p, u, id, h) ==
  /\ LET r == [kind |-> "extend", userId |-> u, reservationId |-> id,
               additionalHours |-> h]
     IN IF Missing(id) \/ Falsy(h)
          THEN Arrive(p, r, "done", "InvalidInput")
          ELSE Arrive(p, r, "e_select", "none")
  /\ UNCHANGED <<dbvars, now, txn, faults>>
  /\ UNCHANGED verification

\* A lookup that did not test the status.
ActiveOwned_AnyStatus(id, u) ==
  /\ id \in DOMAIN reservations
  /\ reservations[id].user_id = u

\* A lookup that did not test the owner.
ActiveOwned_AnyUser(id, u) ==
  /\ id \in DOMAIN reservations
  /\ reservations[id].status = "ACTIVE"

\* A lookup that left out the reservations whose end time has passed.
ActiveOwned_NotOverdue(id, u) ==
  /\ id \in DOMAIN reservations
  /\ reservations[id].user_id = u
  /\ reservations[id].status = "ACTIVE"
  /\ now <= (IF IsNull(reservations[id].extended_end_time)
               THEN reservations[id].expected_end_time
               ELSE Val(reservations[id].extended_end_time))

\* The rows of SELECT ... WHERE reservation_id = $1 AND user_id = $2 AND
\* status = 'ACTIVE' (both handlers send it through db.query).
ActiveOwned(id, u) ==
  /\ id \in DOMAIN reservations
  /\ reservations[id].user_id = u
  /\ reservations[id].status = "ACTIVE"

\* reservation.extended_end_time || reservation.expected_end_time
EndTimeOf(r) ==
  IF IsNull(r.extended_end_time) THEN r.expected_end_time
                                 ELSE Val(r.extended_end_time)

\* The SELECT, then the new end time and the costs computed from the row read.
ExtendSelect(p) ==
  /\ pc[p] = "e_select"
  /\ LET id == Val(req[p].reservationId)
     IN IF ~ActiveOwned(id, req[p].userId)
          THEN Respond(p, "NotFound")
          ELSE LET reservation == reservations[id]
                   additionalHoursNum == ParseInt(req[p].additionalHours)
                   newEndTime == EndTimeOf(reservation) + additionalHoursNum * Hour
                   additionalCost == BasePrice * additionalHoursNum
                   newTotalCost == reservation.total_cost + additionalCost
               IN /\ loc' = [loc EXCEPT ![p] =
                               [newEndTime |-> newEndTime,
                                additionalCost |-> additionalCost,
                                newTotalCost |-> newTotalCost]]
                  /\ Goto(p, "e_update")
  /\ UNCHANGED <<dbvars, now, txn, ops, faults, conc>>
  /\ UNCHANGED otpvars

\* An extend whose UPDATE also closed the reservation.
ExtendUpdate_AlsoCompletes(p) ==
  /\ pc[p] = "e_update"
  /\ SetDB(ApplyAll(DB,
       <<UpdateReservationExtended(Val(req[p].reservationId), loc[p].newEndTime,
                                   loc[p].additionalCost, loc[p].newTotalCost),
         UpdateReservationCompleted(Val(req[p].reservationId), now)>>))
  /\ UNCHANGED txn
  /\ Respond(p, "OK")
  /\ UNCHANGED <<now, ops, faults, conc>>
  /\ UNCHANGED otpvars

\* UPDATE reservations SET extended_end_time = $1, extension_count =
\* extension_count + 1, extension_cost = COALESCE(extension_cost, 0) + $2,
\* total_cost = $3 WHERE reservation_id = $4, through db.query; then the 200.
ExtendUpdate(p) ==
  /\ pc[p] = "e_update"
  /\ PoolQuery(p, UpdateReservationExtended(Val(req[p].reservationId),
                    loc[p].newEndTime, loc[p].additionalCost, loc[p].newTotalCost))
  /\ Respond(p, "OK")
  /\ UNCHANGED <<now, ops, faults, conc>>
  /\ UNCHANGED otpvars

\* --------------------------------------------------------------- release
\* releaseLocker, entry: the id comes from the route, nothing is validated.
ReleaseStart(p, u, id) ==
  /\ Arrive(p, [kind |-> "release", userId |-> u, reservationId |-> id],
            "l_select", "none")
  /\ UNCHANGED <<dbvars, now, txn, faults>>
  /\ UNCHANGED verification

\* SELECT * FROM reservations WHERE ... AND status = 'ACTIVE'.
ReleaseSelect(p) ==
  /\ pc[p] = "l_select"
  /\ LET id == req[p].reservationId
     IN IF ~ActiveOwned(id, req[p].userId)
          THEN Respond(p, "NotFound")
          ELSE /\ loc' = [loc EXCEPT ![p] =
                            [locker_id |-> reservations[id].locker_id,
                             start_time |-> reservations[id].start_time,
                             total_cost |-> reservations[id].total_cost,
                             txStart |-> 0]]
               /\ Goto(p, "connect")
  /\ UNCHANGED <<dbvars, now, txn, ops, faults, conc>>
  /\ UNCHANGED otpvars

\* A release whose UPDATE of the reservation row were sent through db.query,
\* outside the transaction: the row would be COMPLETED before the COMMIT.
ReleaseUpdateReservation_OutsideTransaction(p) ==
  /\ pc[p] = "l_complete"
  /\ PoolQuery(p, UpdateReservationCompleted(req[p].reservationId, loc[p].txStart))
  /\ Goto(p, "l_free")
  /\ UNCHANGED <<now, loc, ops, faults, conc>>
  /\ UNCHANGED otpvars

\* UPDATE reservations SET status = 'COMPLETED', actual_end_time = NOW()
\* WHERE reservation_id = $2, on the client.
ReleaseUpdateReservation(p) ==
  /\ pc[p] = "l_complete"
  /\ ClientQuery(p, UpdateReservationCompleted(req[p].reservationId, loc[p].txStart))
  /\ Goto(p, "l_free")
  /\ UNCHANGED <<now, loc, ops, faults, conc>>
  /\ UNCHANGED otpvars

\* A release that left the locker row OCCUPIED.
ReleaseUpdateLocker_NotFreed(p) ==
  /\ pc[p] = "l_free"
  /\ ClientQuery(p, UpdateLockerStatus(loc[p].locker_id, "OCCUPIED"))
  /\ Goto(p, "l_history")
  /\ UNCHANGED <<now, loc, ops, faults, conc>>
  /\ UNCHANGED otpvars

\* UPDATE lockers SET status = 'AVAILABLE' WHERE locker_id = $2, on the client.
ReleaseUpdateLocker(p) ==
  /\ pc[p] = "l_free"
  /\ ClientQuery(p, UpdateLockerStatus(loc[p].locker_id, "AVAILABLE"))
  /\ Goto(p, "l_history")
  /\ UNCHANGED <<now, loc, ops, faults, conc>>
  /\ UNCHANGED otpvars

\* INSERT INTO reservation_history, with the hours computed from new Date().
ReleaseInsertHistory(p) ==
  /\ pc[p] = "l_history"
  /\ LET endTime == now
         totalHours == CeilHours(endTime - loc[p].start_time)
     IN ClientQuery(p, InsertHistory(
          [reservation_id |-> req[p].reservationId,
           start_time |-> loc[p].start_time, end_time |-> endTime,
           total_hours |-> totalHours, total_cost |-> loc[p].total_cost]))
  /\ Goto(p, "commit")
  /\ UNCHANGED <<now, loc, ops, faults, conc>>
  /\ UNCHANGED otpvars

\* ---------------------------------------------------- read-only queries
\* getLockerLocations, getNearbyLockers, getLocationDetails and
\* getUserReservations.  Their rows are not kept.  `given` says that the
\* request carries what the handler looks for: the coordinates of nearby, an
\* id of an existing location for locationDetails.
ReadKinds == {"locations", "nearby", "locationDetails", "userReservations"}

ReadStart(p, kind, given) ==
  /\ LET r == [kind |-> kind, given |-> given]
     IN IF kind = "nearby" /\ ~given
          THEN Arrive(p, r, "done", "InvalidInput")
          ELSE Arrive(p, r, "q_select", "none")
  /\ UNCHANGED <<dbvars, now, txn, faults>>
  /\ UNCHANGED verification

\* The handler's SELECT, through db.query, and the 200; getLocationDetails
\* answers 404 when the location is unknown and else goes on to its lockers.
ReadSelect(p) ==
  /\ pc[p] = "q_select"
  /\ IF req[p].kind = "locationDetails"
       THEN IF ~req[p].given
              THEN Respond(p, "NotFound")
              ELSE Goto(p, "q_lockers") /\ UNCHANGED loc
       ELSE Respond(p, "OK")
  /\ UNCHANGED <<dbvars, now, txn, ops, faults, conc>>
  /\ UNCHANGED otpvars

\* getLocationDetails: SELECT ... FROM lockers WHERE location_id = $1.
ReadLockers(p) ==
  /\ pc[p] = "q_lockers"
  /\ Respond(p, "OK")
  /\ UNCHANGED <<dbvars, now, txn, ops, faults, conc>>
  /\ UNCHANGED otpvars

\* ------------------------------------------------- locker status events
\* An event handler that stored the status a locker reports.
MqttMessage_StoresStatus(l, message) ==
  /\ emitted' = emitted \cup {l}
  /\ lockers' = [lockers EXCEPT ![l] = message]
  /\ UNCHANGED <<reservations, history, now, pc, req, loc, txn, result, ops,
                 faults, conc>>
  /\ UNCHANGED <<codes, otpNow, vpc, vreq, vloc, vresult, issued, accepted,
                 conn>>

\* mqttClient.on('message'): a message on lockers/<l>/status is forwarded to
\* the Socket.IO clients as event locker:<l>.  Nothing is stored.
MqttMessage(l, message) ==
  /\ emitted' = emitted \cup {l}
  /\ UNCHANGED <<lockers, reservations, history, now, pc, req, loc, txn,
                 result, ops, faults, conc>>
  /\ UNCHANGED <<codes, otpNow, vpc, vreq, vloc, vresult, issued, accepted,
                 conn>>

\* ------------------------------------------------------ failures and time
\* A store call made through db.query, or pool.connect(), rejects: the
\* handler's outer catch answers 500.
QueryFails(p) ==
  /\ pc[p] \in {"r_select", "e_select", "l_select", "e_update", "connect",
                "q_select", "q_lockers"}
  /\ faults < MaxFaults
  /\ faults' = faults + 1
  /\ Respond(p, "Error")
  /\ UNCHANGED <<dbvars, now, txn, ops, conc>>
  /\ UNCHANGED otpvars

\* A statement on the client (BEGIN, a write, COMMIT) rejects: the inner catch.
ClientQueryFails(p) ==
  /\ pc[p] \in {"begin", "r_update", "r_insert", "l_complete", "l_free",
                "l_history", "commit"}
  /\ faults < MaxFaults
  /\ faults' = faults + 1
  /\ Goto(p, "rollback")
  /\ UNCHANGED <<dbvars, now, loc, txn, ops, conc>>
  /\ conn' = IF pc[p] = "commit"
              THEN [conn EXCEPT ![p].commits = @ + 1]
              ELSE conn
  /\ UNCHANGED verification

Tick ==
  /\ now < MaxTime
  /\ now' = now + 1
  /\ UNCHANGED <<dbvars, pc, req, loc, txn, result, ops, faults, conc>>
  /\ UNCHANGED otpvars

\* ---------------------------------------------------------- verification
\* src/src/services/twilioService.ts against the verification_codes table.
\* Each statement goes through db.query, in a transaction of its own.
Phones == {"p1", "p2"}
Purposes == {"SIGNUP", "LOGIN"}
\* generateOTP(): Math.floor(100000 + Math.random() * 900000), two of its values.
Otps == {100000, 100001}

\* new Date(Date.now() + 10 * 60 * 1000): the lifetime of a code, the unit of
\* otpNow.
OtpTtl == 1

\* A lookup that did not test expires_at.
ValidCodes_IgnoringExpiry(phone, otp, purpose) ==
  {c \in codes : /\ c.phone = phone /\ c.code = otp /\ c.purpose = purpose
                 /\ c.is_used = FALSE}

\* A lookup that did not test is_used.
ValidCodes_IgnoringUsed(phone, otp, purpose) ==
  {c \in codes : /\ c.phone = phone /\ c.code = otp /\ c.purpose = purpose
                 /\ c.expires_at > otpNow}

\* A lookup that did not test the purpose.
ValidCodes_AnyPurpose(phone, otp, purpose) ==
  {c \in codes : /\ c.phone = phone /\ c.code = otp
                 /\ c.expires_at > otpNow /\ c.is_used = FALSE}

\* A lookup that still took a code at the instant it expires.
ValidCodes_AtExpiry(phone, otp, purpose) ==
  {c \in codes : /\ c.phone = phone /\ c.code = otp /\ c.purpose = purpose
                 /\ c.expires_at >= otpNow /\ c.is_used = FALSE}

\* The rows of SELECT * FROM verification_codes WHERE phone = $1 AND code = $2
\* AND purpose = $3 AND expires_at > NOW() AND is_used = false.
ValidCodes(phone, otp, purpose) ==
  {c \in codes : /\ c.phone = phone /\ c.code = otp /\ c.purpose = purpose
                 /\ c.expires_at > otpNow /\ c.is_used = FALSE}

\* A trigger that kept only the newest code.
DeleteExpiredOtps_KeepNewest(rows) ==
  {c \in rows : \A d \in rows : d.code_id <= c.code_id}

\* trigger_delete_expired_otps, AFTER INSERT ON verification_codes:
\* DELETE FROM verification_codes WHERE expires_at < NOW().
DeleteExpiredOtps(rows) == {c \in rows : ~(c.expires_at < otpNow)}

\* generateOTP(): codes are only ever compared for equality, so the draws that
\* matter are a code some stored row has, or one new code.
OtpDraws ==
  LET used == {c.code : c \in codes}
      new == Otps \ used
  IN used \cup {o \in new : \A d \in new : o <= d}

\* generateAndStoreOTP: the code and its expiry are taken, then the INSERT (and
\* with it the trigger) runs as one statement.  code_id is a fresh id.
GenerateAndStoreOTP(phone, purpose) ==
  /\ issued < MaxCodes
  /\ \E otp \in OtpDraws :
       LET expiresAt == otpNow + OtpTtl
           row == [code_id |-> issued + 1, phone |-> phone, code |-> otp,
                   purpose |-> purpose, expires_at |-> expiresAt,
                   is_used |-> FALSE]
       IN codes' = DeleteExpiredOtps(codes \cup {row})
  /\ issued' = issued + 1
  /\ accepted' = Append(accepted, 0)
  /\ UNCHANGED <<otpNow, vpc, vreq, vloc, vresult, ops, faults>>
  /\ UNCHANGED lockervars

VerifyInFlight(p) == vpc[p] \notin {"idle", "done"}

\* return true / return false: verifyOTP is over.  The value stays on the slot
\* until the next call arrives.
VerifyReturn(p, b) ==
  /\ vpc' = [vpc EXCEPT ![p] = "done"]
  /\ vresult' = [vresult EXCEPT ![p] = b]
  /\ vloc' = [vloc EXCEPT ![p] = 0]

\* verifyOTP is called: the call takes the first free slot.
VerifyStart(p, phone, otp, purpose) ==
  /\ ~VerifyInFlight(p)
  /\ \A q \in Procs : q < p => VerifyInFlight(q)
  /\ ops < MaxOps
  /\ ops' = ops + 1
  /\ vpc' = [q \in Procs |->
               IF q = p THEN "v_select"
               ELSE IF VerifyInFlight(q) THEN vpc[q] ELSE "idle"]
  /\ vreq' = [q \in Procs |->
                IF q = p THEN [phone |-> phone, otp |-> otp, purpose |-> purpose]
                ELSE IF VerifyInFlight(q) THEN vreq[q] ELSE NoReq]
  /\ vresult' = [q \in Procs |->
                   IF q # p /\ VerifyInFlight(q) THEN vresult[q] ELSE "none"]
  /\ UNCHANGED <<codes, otpNow, vloc, issued, accepted, faults>>
  /\ UNCHANGED lockervars

\* The SELECT: no row, return false; else the first row returned (the query
\* has no ORDER BY: any of them) is the one to mark.
VerifySelect(p) ==
  /\ vpc[p] = "v_select"
  /\ LET rows == ValidCodes(vreq[p].phone, vreq[p].otp, vreq[p].purpose)
     IN IF rows = {}
          THEN VerifyReturn(p, FALSE)
          ELSE /\ \E c \in rows : vloc' = [vloc EXCEPT ![p] = c.code_id]
               /\ vpc' = [vpc EXCEPT ![p] = "v_update"]
               /\ UNCHANGED vresult
  /\ UNCHANGED <<codes, otpNow, vreq, issued, accepted, ops, faults>>
  /\ UNCHANGED lockervars

\* A verifyOTP whose UPDATE left is_used as it was.
VerifyUpdate_NotMarked(p) ==
  /\ vpc[p] = "v_update"
  /\ codes' = codes
  /\ accepted' = [accepted EXCEPT ![vloc[p]] = @ + 1]
  /\ VerifyReturn(p, TRUE)
  /\ UNCHANGED <<otpNow, vreq, issued, ops, faults>>
  /\ UNCHANGED lockervars

\* UPDATE verification_codes SET is_used = true WHERE code_id = $1, then
\* return true (also when the row is gone and the UPDATE matched nothing).
VerifyUpdate(p) ==
  /\ vpc[p] = "v_update"
  /\ codes' = {IF c.code_id = vloc[p] THEN [c EXCEPT !.is_used = TRUE] ELSE c :
                 c \in codes}
  /\ accepted' = [accepted EXCEPT ![vloc[p]] = @ + 1]
  /\ VerifyReturn(p, TRUE)
  /\ UNCHANGED <<otpNow, vreq, issued, ops, faults>>
  /\ UNCHANGED lockervars

\* Either db.query of verifyOTP rejects: the catch returns false.
VerifyFails(p) ==
  /\ vpc[p] \in {"v_select", "v_update"}
  /\ faults < MaxFaults
  /\ faults' = faults + 1
  /\ VerifyReturn(p, FALSE)
  /\ UNCHANGED <<codes, otpNow, vreq, issued, accepted, ops>>
  /\ UNCHANGED lockervars

OtpTick ==
  /\ otpNow < MaxOtpTime
  /\ otpNow' = otpNow + 1
  /\ UNCHANGED <<codes, vpc, vreq, vloc, vresult, issued, accepted, ops, faults>>
  /\ UNCHANGED lockervars

\* ------------------------------------------------------- specification
\* The lockers are provisioned outside the handlers, free or in maintenance;
\* the other tables are empty and no request is in flight.
Init ==
  /\ lockers \in {f \in [Lockers -> {"AVAILABLE", "MAINTENANCE"}] :
                    f["L1"] = "AVAILABLE"}
  /\ reservations = <<>>
  /\ history = <<>>
  /\ now = 0
  /\ pc = [p \in Procs |-> "idle"]
  /\ req = [p \in Procs |-> NoReq]
  /\ loc = [p \in Procs |-> NoLoc]
  /\ txn = [p \in Procs |-> <<>>]
  /\ result = [p \in Procs |-> "none"]
  /\ ops = 0
  /\ faults = 0
  /\ conc = [p \in Procs |-> {}]
  /\ codes = {}
  /\ otpNow = 0
  /\ vpc = [p \in Procs |-> "idle"]
  /\ vreq = [p \in Procs |-> NoReq]
  /\ vloc = [p \in Procs |-> 0]
  /\ vresult = [p \in Procs |-> "none"]
  /\ issued = 0
  /\ accepted = <<>>
  /\ emitted = {}
  /\ conn = [p \in Procs |-> NoConn]

LockerInputs == {Null} \cup {Some(l) : l \in Lockers}
ResIdInputs == {Null} \cup {Some(i) : i \in ResIds}

\* Users are only ever compared for equality: the first reserve request of a
\* behaviour is taken to be u1's.
ReserveUsers ==
  IF reservations = <<>> /\ \A q \in Procs : req[q].kind # "reserve"
    THEN {"u1"} ELSE Users

Next ==
  \/ \E p \in Procs, u \in ReserveUsers, l \in LockerInputs, d \in DurationInputs :
       ReserveStart(p, u, l, d)
  \/ \E p \in Procs : ReserveSelect(p)
  \/ \E p \in Procs : Connect(p)
  \/ \E p \in Procs : Begin(p)
  \/ \E p \in Procs : ReserveUpdateLocker(p)
  \/ \E p \in Procs : ReserveInsert(p)
  \/ \E p \in Procs : Commit(p)
  \/ \E p \in Procs : Rollback(p)
  \/ \E p \in Procs, u \in Users, id \in ResIdInputs, h \in HoursInputs :
       ExtendStart(p, u, id, h)
  \/ \E p \in Procs : ExtendSelect(p)
  \/ \E p \in Procs : ExtendUpdate(p)
  \/ \E p \in Procs, u \in Users, id \in ResIds : ReleaseStart(p, u, id)
  \/ \E p \in Procs : ReleaseSelect(p)
  \/ \E p \in Procs : ReleaseUpdateReservation(p)
  \/ \E p \in Procs : ReleaseUpdateLocker(p)
  \/ \E p \in Procs : ReleaseInsertHistory(p)
  \/ \E p \in Procs : QueryFails(p)
  \/ \E p \in Procs : ClientQueryFails(p)
  \/ Tick

Spec == Init /\ [][Next]_vars

\* No request is being handled.
Quiet == \A q \in Procs : ~InFlight(q)

\* The reserve and release traffic on free lockers, with store failures and a
\* stopped clock: the transactions of the two handlers, interleaved in every
\* order.  Every reservation is u1's; either user asks for its release.
InitReserveRelease ==
  /\ Init
  /\ lockers = [l \in Lockers |-> "AVAILABLE"]

NextReserveRelease ==
  \/ \E p \in Procs, l \in Lockers : ReserveStart(p, "u1", Some(l), Some(Hour))
  \/ \E p \in Procs : ReserveSelect(p)
  \/ \E p \in Procs : Connect(p)
  \/ \E p \in Procs : Begin(p)
  \/ \E p \in Procs : ReserveUpdateLocker(p)
  \/ \E p \in Procs : ReserveInsert(p)
  \/ \E p \in Procs : Commit(p)
  \/ \E p \in Procs : Rollback(p)
  \/ \E p \in Procs, u \in Users, id \in ResIds : ReleaseStart(p, u, id)
  \/ \E p \in Procs : ReleaseSelect(p)
  \/ \E p \in Procs : ReleaseUpdateReservation(p)
  \/ \E p \in Procs : ReleaseUpdateLocker(p)
  \/ \E p \in Procs : ReleaseInsertHistory(p)
  \/ \E p \in Procs : QueryFails(p)
  \/ \E p \in Procs : ClientQueryFails(p)

SpecReserveRelease == InitReserveRelease /\ [][NextReserveRelease]_vars

\* startServer with config.app.env = 'development', the value it has when
\* NODE_ENV is not set: initDatabase runs database.sql in one transaction.  The
\* file drops every table and creates it again, and inserts no row.  The server
\* is started while no request is being handled.
StartServer ==
  /\ Quiet
  /\ lockers' = [l \in {} |-> "AVAILABLE"]
  /\ reservations' = <<>>
  /\ history' = <<>>
  /\ codes' = {}
  /\ UNCHANGED <<now, pc, req, loc, txn, result, ops, faults, conc>>
  /\ UNCHANGED <<otpNow, vpc, vreq, vloc, vresult, issued, accepted, emitted,
                 conn>>

\* The reserve and release traffic, and the server being started again.
NextStartup ==
  \/ NextReserveRelease
  \/ StartServer

SpecStartup == InitReserveRelease /\ [][NextStartup]_vars

\* The three handlers serving one request at a time, with every request body:
\* durations and hours that are absent, zero, fractional or negative.
AllDurations == DurationInputs \cup {Some(3), Some(-2)}
AllHours == HoursInputs \cup {Some(1)}

NextSerial ==
  \/ \E p \in Procs, u \in ReserveUsers, l \in LockerInputs, d \in AllDurations :
       Quiet /\ ReserveStart(p, u, l, d)
  \/ \E p \in Procs : ReserveSelect(p)
  \/ \E p \in Procs : Connect(p)
  \/ \E p \in Procs : Begin(p)
  \/ \E p \in Procs : ReserveUpdateLocker(p)
  \/ \E p \in Procs : ReserveInsert(p)
  \/ \E p \in Procs : Commit(p)
  \/ \E p \in Procs : Rollback(p)
  \/ \E p \in Procs, u \in Users, id \in ResIdInputs, h \in AllHours :
       Quiet /\ ExtendStart(p, u, id, h)
  \/ \E p \in Procs : ExtendSelect(p)
  \/ \E p \in Procs : ExtendUpdate(p)
  \/ \E p \in Procs, u \in Users, id \in ResIds : Quiet /\ ReleaseStart(p, u, id)
  \/ \E p \in Procs : ReleaseSelect(p)
  \/ \E p \in Procs : ReleaseUpdateReservation(p)
  \/ \E p \in Procs : ReleaseUpdateLocker(p)
  \/ \E p \in Procs : ReleaseInsertHistory(p)
  \/ \E p \in Procs : QueryFails(p)
  \/ \E p \in Procs : ClientQueryFails(p)
  \/ Tick

SpecSerial == Init /\ [][NextSerial]_vars

\* The extend traffic on u1's reservations of locker L1: one-hour extensions
\* asked by either user, interleaved in every order with the reserve and
\* release requests of u1 and with store failures; the clock is stopped.
NextExtend ==
  \/ \E p \in Procs : ReserveStart(p, "u1", Some("L1"), Some(Hour))
  \/ \E p \in Procs : ReserveSelect(p)
  \/ \E p \in Procs : Connect(p)
  \/ \E p \in Procs : Begin(p)
  \/ \E p \in Procs : ReserveUpdateLocker(p)
  \/ \E p \in Procs : ReserveInsert(p)
  \/ \E p \in Procs : Commit(p)
  \/ \E p \in Procs : Rollback(p)
  \/ \E p \in Procs, u \in Users, id \in ResIds : ExtendStart(p, u, Some(id), Some(Hour))
  \/ \E p \in Procs : ExtendSelect(p)
  \/ \E p \in Procs : ExtendUpdate(p)
  \/ \E p \in Procs, id \in ResIds : ReleaseStart(p, "u1", id)
  \/ \E p \in Procs : ReleaseSelect(p)
  \/ \E p \in Procs : ReleaseUpdateReservation(p)
  \/ \E p \in Procs : ReleaseUpdateLocker(p)
  \/ \E p \in Procs : ReleaseInsertHistory(p)
  \/ \E p \in Procs : QueryFails(p)
  \/ \E p \in Procs : ClientQueryFails(p)

SpecExtend == InitReserveRelease /\ [][NextExtend]_vars

\* The traffic of SpecExtend with failing ROLLBACKs, under the scheduling of the
\* server: once the promise a handler awaits is settled, Node runs the
\* handler's continuation, and the store answers every statement that waits
\* for no lock.  A failure is never bound to happen.
Continue(p) ==
  \/ ReserveSelect(p) \/ Connect(p) \/ Begin(p)
  \/ ReserveUpdateLocker(p) \/ ReserveInsert(p)
  \/ Commit(p) \/ Rollback(p)
  \/ ExtendSelect(p) \/ ExtendUpdate(p)
  \/ ReleaseSelect(p) \/ ReleaseUpdateReservation(p)
  \/ ReleaseUpdateLocker(p) \/ ReleaseInsertHistory(p)

NextAnswered ==
  \/ NextExtend
  \/ \E p \in Procs : RollbackFails(p)

SpecAnswered ==
  /\ InitReserveRelease
  /\ [][NextAnswered]_vars
  /\ \A p \in Procs : WF_vars(Continue(p))

\* Requests on unrelated targets.  Locker L1 is held by u1's reservation 1, and
\* L2 is free or held by u1's reservation 2; the requests that made them are
\* over and are not counted in ops.  The store does not fail and the clock is
\* stopped.  Each reservation gets at most one request, an extend or a release,
\* and L2, when free, at most one reserve.
FirstReservation(i) ==
  NewReservation("u1", IF i = 1 THEN "L1" ELSE "L2", 0, Hour, BasePrice,
                 99999 + i)

InitUnrelated ==
  /\ \E n \in 1..2 :
       /\ reservations = [i \in 1..n |-> FirstReservation(i)]
       /\ lockers = [l \in Lockers |->
                       IF l = "L1" \/ n = 2 THEN "OCCUPIED" ELSE "AVAILABLE"]
  /\ history = <<>>
  /\ now = 0
  /\ pc = [p \in Procs |-> "idle"]
  /\ req = [p \in Procs |-> NoReq]
  /\ loc = [p \in Procs |-> NoLoc]
  /\ txn = [p \in Procs |-> <<>>]
  /\ result = [p \in Procs |-> "none"]
  /\ ops = 0
  /\ faults = 0
  /\ conc = [p \in Procs |-> {}]
  /\ codes = {}
  /\ otpNow = 0
  /\ vpc = [p \in Procs |-> "idle"]
  /\ vreq = [p \in Procs |-> NoReq]
  /\ vloc = [p \in Procs |-> 0]
  /\ vresult = [p \in Procs |-> "none"]
  /\ issued = 0
  /\ accepted = <<>>
  /\ emitted = {}
  /\ conn = [p \in Procs |-> NoConn]

\* No request has been made on reservation i.
Untouched(i) ==
  /\ i \in DOMAIN reservations
  /\ reservations[i].status = "ACTIVE"
  /\ reservations[i].extension_count = 0
  /\ \A q \in Procs :
       InFlight(q)
       => /\ req[q].kind = "extend" => req[q].reservationId # Some(i)
          /\ req[q].kind = "release" => req[q].reservationId # i

\* No request has been made on locker L2.
UntouchedL2 ==
  /\ Len(reservations) = 1
  /\ \A q \in Procs : InFlight(q) => req[q].kind # "reserve"

NextUnrelated ==
  \/ \E p \in Procs :
       UntouchedL2 /\ ReserveStart(p, "u1", Some("L2"), Some(Hour))
  \/ \E p \in Procs : ReserveSelect(p)
  \/ \E p \in Procs : Connect(p)
  \/ \E p \in Procs : Begin(p)
  \/ \E p \in Procs : ReserveUpdateLocker(p)
  \/ \E p \in Procs : ReserveInsert(p)
  \/ \E p \in Procs : Commit(p)
  \/ \E p \in Procs, i \in ResIds :
       Untouched(i) /\ ExtendStart(p, "u1", Some(i), Some(Hour))
  \/ \E p \in Procs : ExtendSelect(p)
  \/ \E p \in Procs : ExtendUpdate(p)
  \/ \E p \in Procs, i \in ResIds : Untouched(i) /\ ReleaseStart(p, "u1", i)
  \/ \E p \in Procs : ReleaseSelect(p)
  \/ \E p \in Procs : ReleaseUpdateReservation(p)
  \/ \E p \in Procs : ReleaseUpdateLocker(p)
  \/ \E p \in Procs : ReleaseInsertHistory(p)

SpecUnrelated == InitUnrelated /\ [][NextUnrelated]_vars

\* An overdue reservation.  u1 reserved locker L1 two hours before time 0, for
\* one hour.  u1 extends it by one hour, releases it and lists its
\* reservations while the clock runs; the store does not fail.
InitOverdue ==
  /\ reservations = <<NewReservation("u1", "L1", -(2 * Hour), -Hour, BasePrice,
                                     100000)>>
  /\ lockers = [l \in Lockers |-> IF l = "L1" THEN "OCCUPIED" ELSE "AVAILABLE"]
  /\ history = <<>>
  /\ now = 0
  /\ pc = [p \in Procs |-> "idle"]
  /\ req = [p \in Procs |-> NoReq]
  /\ loc = [p \in Procs |-> NoLoc]
  /\ txn = [p \in Procs |-> <<>>]
  /\ result = [p \in Procs |-> "none"]
  /\ ops = 0
  /\ faults = 0
  /\ conc = [p \in Procs |-> {}]
  /\ codes = {}
  /\ otpNow = 0
  /\ vpc = [p \in Procs |-> "idle"]
  /\ vreq = [p \in Procs |-> NoReq]
  /\ vloc = [p \in Procs |-> 0]
  /\ vresult = [p \in Procs |-> "none"]
  /\ issued = 0
  /\ accepted = <<>>
  /\ emitted = {}
  /\ conn = [p \in Procs |-> NoConn]

NextOverdue ==
  \/ \E p \in Procs : ExtendStart(p, "u1", Some(1), Some(Hour))
  \/ \E p \in Procs : ExtendSelect(p)
  \/ \E p \in Procs : ExtendUpdate(p)
  \/ \E p \in Procs : ReleaseStart(p, "u1", 1)
  \/ \E p \in Procs : ReleaseSelect(p)
  \/ \E p \in Procs : Connect(p)
  \/ \E p \in Procs : Begin(p)
  \/ \E p \in Procs : ReleaseUpdateReservation(p)
  \/ \E p \in Procs : ReleaseUpdateLocker(p)
  \/ \E p \in Procs : ReleaseInsertHistory(p)
  \/ \E p \in Procs : Commit(p)
  \/ \E p \in Procs : ReadStart(p, "userReservations", TRUE)
  \/ \E p \in Procs : ReadSelect(p)
  \/ Tick

SpecOverdue == InitOverdue /\ [][NextOverdue]_vars

\* Every kind of traffic at once: u1's reserve, extend and release on locker
\* L1, the read-only queries, the codes of p1's signup, and the status events
\* of locker L1.  `given` matters to nearby and locationDetails only.
ReadInputs ==
  {<<k, TRUE>> : k \in ReadKinds}
    \cup {<<k, FALSE>> : k \in {"nearby", "locationDetails"}}

NextAllTraffic ==
  \/ \E p \in Procs : ReserveStart(p, "u1", Some("L1"), Some(Hour))
  \/ \E p \in Procs : ReserveSelect(p)
  \/ \E p \in Procs : Connect(p)
  \/ \E p \in Procs : Begin(p)
  \/ \E p \in Procs : ReserveUpdateLocker(p)
  \/ \E p \in Procs : ReserveInsert(p)
  \/ \E p \in Procs : Commit(p)
  \/ \E p \in Procs : ExtendStart(p, "u1", Some(1), Some(Hour))
  \/ \E p \in Procs : ExtendSelect(p)
  \/ \E p \in Procs : ExtendUpdate(p)
  \/ \E p \in Procs : ReleaseStart(p, "u1", 1)
  \/ \E p \in Procs : ReleaseSelect(p)
  \/ \E p \in Procs : ReleaseUpdateReservation(p)
  \/ \E p \in Procs : ReleaseUpdateLocker(p)
  \/ \E p \in Procs : ReleaseInsertHistory(p)
  \/ \E p \in Procs, q \in ReadInputs : ReadStart(p, q[1], q[2])
  \/ \E p \in Procs : ReadSelect(p)
  \/ \E p \in Procs : ReadLockers(p)
  \/ GenerateAndStoreOTP("p1", "SIGNUP")
  \/ \E p \in Procs : VerifyStart(p, "p1", 100000, "SIGNUP")
  \/ \E p \in Procs : VerifySelect(p)
  \/ \E p \in Procs : VerifyUpdate(p)
  \/ MqttMessage("L1", "AVAILABLE")

SpecAllTraffic == InitReserveRelease /\ [][NextAllTraffic]_vars

\* The verification service on its own: codes are generated and verified by
\* concurrent calls while the clock runs and store calls fail.
InitVerification ==
  /\ Init
  /\ lockers = [l \in Lockers |-> "AVAILABLE"]

\* Phones and purposes are only ever compared for equality: the first code of
\* a behaviour is taken to be a SIGNUP code of p1.
FirstCode == IF issued = 0 THEN {<<"p1", "SIGNUP">>} ELSE Phones \X Purposes

NextVerification ==
  \/ \E c \in FirstCode : GenerateAndStoreOTP(c[1], c[2])
  \/ \E p \in Procs, phone \in Phones, otp \in Otps, purpose \in Purposes :
       VerifyStart(p, phone, otp, purpose)
  \/ \E p \in Procs : VerifySelect(p)
  \/ \E p \in Procs : VerifyUpdate(p)
  \/ \E p \in Procs : VerifyFails(p)
  \/ OtpTick

SpecVerification == InitVerification /\ [][NextVerification]_vars

\* The codes of p1's signup, and verify calls that present the first code
\* drawn under either phone and either purpose.
NextSignupCodes ==
  \/ GenerateAndStoreOTP("p1", "SIGNUP")
  \/ \E p \in Procs, phone \in Phones, purpose \in Purposes :
       VerifyStart(p, phone, 100000, purpose)
  \/ \E p \in Procs : VerifySelect(p)
  \/ \E p \in Procs : VerifyUpdate(p)
  \/ \E p \in Procs : VerifyFails(p)
  \/ OtpTick

SpecSignupCodes == InitVerification /\ [][NextSignupCodes]_vars

\* The codes of p1's signup, and verify calls of p1's signup that present any
\* digits: those of a stored code or others.
NextCodeGuesses ==
  \/ GenerateAndStoreOTP("p1", "SIGNUP")
  \/ \E p \in Procs, otp \in Otps : VerifyStart(p, "p1", otp, "SIGNUP")
  \/ \E p \in Procs : VerifySelect(p)
  \/ \E p \in Procs : VerifyUpdate(p)
  \/ \E p \in Procs : VerifyFails(p)
  \/ OtpTick

SpecCodeGuesses == InitVerification /\ [][NextCodeGuesses]_vars

\* ================================================================ claims
\* The ACTIVE reservations of locker l among the rows rs.
ActiveOn(rs, l) ==
  {i \in DOMAIN rs : rs[i].locker_id = l /\ rs[i].status = "ACTIVE"}

\* Slot p's request is over and slot q's ran while it did.
AnsweredTogether(p, q) ==
  /\ p # q
  /\ pc[p] = "done" /\ pc[q] = "done"
  /\ q \in conc[p]

\* Slot p takes a step of its handler.
Steps(p) == InFlight(p) /\ pc'[p] # pc[p]

\* C1: of two reserve requests on the same locker that ran concurrently, at
\* most one is answered OK, and when one is, the other is answered
\* ResourceUnavailable or Conflict (a request with an invalid body, answered
\* InvalidInput, and a store failure, answered 500, aside).
C1_OneConcurrentReserveWins ==
  \A p, q \in Procs :
    (/\ AnsweredTogether(p, q)
     /\ req[p].kind = "reserve" /\ req[q].kind = "reserve"
     /\ req[p].lockerId = req[q].lockerId
     /\ result[p] = "OK"
     /\ result[q] \notin {"InvalidInput", "Error"})
    => result[q] \in {"Unavailable", "Conflict"}

\* C2: in every committed state a locker is OCCUPIED exactly when one ACTIVE
\* reservation references it, and no locker has more than one.
C2_OccupiedIffOneActive ==
  \A l \in Lockers :
    /\ Cardinality(ActiveOn(reservations, l)) <= 1
    /\ lockers[l] = "OCCUPIED" <=> Cardinality(ActiveOn(reservations, l)) = 1

\* C3: an extend whose UPDATE reaches a reservation that a release has already
\* completed lost the race: it is not answered OK and the row keeps its end
\* time, extension count and total cost.
C3_ExtendLosesToRelease ==
  [][\A p \in Procs :
       (/\ pc[p] = "e_update" /\ pc'[p] = "done"
        /\ reservations[Val(req[p].reservationId)].status # "ACTIVE")
       => /\ result'[p] # "OK"
          /\ reservations'[Val(req[p].reservationId)]
               = reservations[Val(req[p].reservationId)]]_vars

\* C4: the only step of a release that changes the committed tables is its
\* COMMIT, and that step completes the reservation, frees the locker and
\* appends the history record together; a release answered with a failure
\* changed none of the three.
C4_ReleaseAllOrNothing ==
  [][\A p \in Procs :
       (req[p].kind = "release" /\ Steps(p))
       => \/ UNCHANGED dbvars
          \/ /\ pc[p] = "commit"
             /\ result'[p] = "OK"
             /\ reservations'[req[p].reservationId].status = "COMPLETED"
             /\ reservations'[req[p].reservationId].actual_end_time # Null
             /\ lockers'[loc[p].locker_id] = "AVAILABLE"
             /\ Len(history') = Len(history) + 1
             /\ history'[Len(history')].reservation_id = req[p].reservationId]_vars

\* C4 witness: a release has committed: its reservation is COMPLETED, the
\* locker AVAILABLE and the history record there.
C4_Witness ==
  \E p \in Procs :
    /\ pc[p] = "done" /\ req[p].kind = "release" /\ result[p] = "OK"
    /\ reservations[req[p].reservationId].status = "COMPLETED"
    /\ lockers[reservations[req[p].reservationId].locker_id] = "AVAILABLE"
    /\ \E i \in DOMAIN history : history[i].reservation_id = req[p].reservationId

\* C5: a reservation's status only goes from ACTIVE to COMPLETED or CANCELLED,
\* and a COMPLETED or CANCELLED row never changes again.
C5_TerminalImmutable ==
  [][\A i \in DOMAIN reservations :
       /\ reservations'[i].status # reservations[i].status
            => /\ reservations[i].status = "ACTIVE"
               /\ reservations'[i].status \in {"COMPLETED", "CANCELLED"}
       /\ reservations[i].status \in {"COMPLETED", "CANCELLED"}
            => reservations'[i] = reservations[i]]_vars

\* C6: when a reserve fails after its UPDATE of the locker row, the ROLLBACK
\* leaves the locker with the status it had before that UPDATE and no
\* reservation row of the request.
C6_ReserveRollsBack ==
  [][\A p \in Procs :
       (/\ req[p].kind = "reserve"
        /\ pc[p] = "rollback" /\ pc'[p] = "done"
        /\ Len(txn[p]) >= 1)
       => /\ result'[p] = "Error"
          /\ lockers'[Val(req[p].lockerId)] = loc[p].lockerBefore
          /\ reservations' = reservations
          /\ txn'[p] = <<>>]_vars

\* C6 witness: a reserve was answered 500 after a ROLLBACK that undid the
\* locker UPDATE and the reservation INSERT; the locker is AVAILABLE and there
\* is no reservation.
C6_Witness ==
  \E p \in Procs :
    /\ pc[p] = "done" /\ req[p].kind = "reserve" /\ result[p] = "Error"
    /\ "undone" \in DOMAIN loc[p] /\ loc[p].undone = 2
    /\ lockers[Val(req[p].lockerId)] = "AVAILABLE"
    /\ reservations = <<>>

\* C7: the UPDATE of a reserve does not go through on a locker row that is
\* not AVAILABLE when it is written.
C7_OccupiedOnlyFromAvailable ==
  [][\A p \in Procs :
       (/\ pc[p] = "r_update"
        /\ lockers[Val(req[p].lockerId)] # "AVAILABLE")
       => pc'[p] # "r_insert"]_vars

\* The ACTIVE reservation of locker l has been released: a COMPLETED
\* reservation references l and no ACTIVE one does.
Released(rs, l) ==
  /\ \E i \in DOMAIN rs : rs[i].locker_id = l /\ rs[i].status = "COMPLETED"
  /\ ActiveOn(rs, l) = {}

\* C8: a reserve that runs on its own on a released locker passes the
\* availability check, and its COMMIT leaves the locker OCCUPIED with exactly
\* one ACTIVE reservation, the new one.
C8_ReserveAfterRelease ==
  [][\A p \in Procs :
       (/\ req[p].kind = "reserve" /\ Steps(p)
        /\ conc[p] = {}
        /\ Released(reservations, Val(req[p].lockerId)))
       => /\ pc[p] = "r_select" => (pc'[p] = "connect" \/ result'[p] = "Error")
          /\ (pc[p] = "commit" /\ pc'[p] = "done")
               => /\ result'[p] = "OK"
                  /\ lockers'[Val(req[p].lockerId)] = "OCCUPIED"
                  /\ ActiveOn(reservations', Val(req[p].lockerId))
                       = {Len(reservations')}]_vars

\* C8 witness: a reserve that ran on its own was answered OK on a locker that
\* has a COMPLETED reservation; the locker is OCCUPIED by the new one alone.
C8_Witness ==
  \E p \in Procs :
    /\ pc[p] = "done" /\ req[p].kind = "reserve" /\ result[p] = "OK"
    /\ conc[p] = {}
    /\ \E i \in DOMAIN reservations :
         /\ reservations[i].locker_id = Val(req[p].lockerId)
         /\ reservations[i].status = "COMPLETED"
    /\ lockers[Val(req[p].lockerId)] = "OCCUPIED"
    /\ ActiveOn(reservations, Val(req[p].lockerId)) = {Len(reservations)}

\* C9: every extend of a positive whole number of hours that is answered OK
\* adds basePrice times those hours to the stored total_cost.
C9_ExtendAccruesCost ==
  [][\A p \in Procs :
       (/\ pc[p] = "e_update" /\ pc'[p] = "done" /\ result'[p] = "OK"
        /\ Val(req[p].additionalHours) > 0
        /\ Val(req[p].additionalHours) % Hour = 0)
       => reservations'[Val(req[p].reservationId)].total_cost
            = reservations[Val(req[p].reservationId)].total_cost
                + BasePrice * (Val(req[p].additionalHours) \div Hour)]_vars

\* C10: an extend that is answered OK never leaves the reservation with an
\* end time earlier than the one it had.
C10_ExtendNeverShortens ==
  [][\A p \in Procs :
       (pc[p] = "e_update" /\ pc'[p] = "done" /\ result'[p] = "OK")
       => EndTimeOf(reservations'[Val(req[p].reservationId)])
            >= EndTimeOf(reservations[Val(req[p].reservationId)])]_vars

\* The stored codes issued with the phone, code and purpose of the call r.
IssuedFor(r) ==
  {c \in codes : c.phone = r.phone /\ c.code = r.otp /\ c.purpose = r.purpose}

\* The lookup of slot p's verifyOTP call runs in this step.
Looks(p) == vpc[p] = "v_select" /\ vpc'[p] # "v_select"

\* C11: a verify call whose lookup runs after a verify call has returned true
\* for the code it presents, and that matches no other stored code, returns
\* false.
C11_VerifyAtMostOnce ==
  [][\A p \in Procs :
       (/\ Looks(p)
        /\ IssuedFor(vreq[p]) # {}
        /\ \A c \in IssuedFor(vreq[p]) : accepted[c.code_id] >= 1)
       => vpc'[p] = "done" /\ vresult'[p] = FALSE]_vars

\* C11 witness: with no store failure, a call returned false for an unexpired
\* code that an earlier call had returned true for.
C11_Witness ==
  \E p \in Procs :
    /\ vpc[p] = "done" /\ vresult[p] = FALSE /\ faults = 0
    /\ IssuedFor(vreq[p]) # {}
    /\ \A c \in IssuedFor(vreq[p]) :
         accepted[c.code_id] = 1 /\ c.is_used /\ c.expires_at > otpNow

\* C12: no issued code makes more than one verify call return true, also when
\* the calls run concurrently.
C12_ConcurrentVerifyOnce ==
  \A id \in DOMAIN accepted : accepted[id] <= 1

\* C13: a verify call whose lookup finds the code it presents stored only in
\* rows whose expires_at has passed returns false and changes no row.
C13_ExpiredCodeRejected ==
  [][\A p \in Procs :
       (/\ Looks(p)
        /\ IssuedFor(vreq[p]) # {}
        /\ \A c \in IssuedFor(vreq[p]) : c.expires_at <= otpNow)
       => vpc'[p] = "done" /\ vresult'[p] = FALSE /\ codes' = codes]_vars

\* C13 witness: with no store failure, a call returned false for a code that
\* was never used and whose expires_at has passed.
C13_Witness ==
  \E p \in Procs :
    /\ vpc[p] = "done" /\ vresult[p] = FALSE /\ faults = 0
    /\ IssuedFor(vreq[p]) # {}
    /\ \A c \in IssuedFor(vreq[p]) :
         accepted[c.code_id] = 0 /\ ~c.is_used /\ c.expires_at <= otpNow

\* C14: a verify call that presents a stored code under a phone or a purpose
\* the code was not issued for returns false and marks no code used.
C14_BoundToPhoneAndPurpose ==
  [][\A p \in Procs :
       (/\ Looks(p)
        /\ \E c \in codes : c.code = vreq[p].otp
        /\ IssuedFor(vreq[p]) = {})
       => vpc'[p] = "done" /\ vresult'[p] = FALSE /\ codes' = codes]_vars

\* C14 witness: with no store failure, a call returned false although a usable
\* code with the digits it presented is stored for the same phone and another
\* purpose, and that code is still unused.
C14_Witness ==
  \E p \in Procs :
    /\ vpc[p] = "done" /\ vresult[p] = FALSE /\ faults = 0
    /\ IssuedFor(vreq[p]) = {}
    /\ \E c \in codes :
         /\ c.code = vreq[p].otp /\ c.phone = vreq[p].phone
         /\ c.purpose # vreq[p].purpose
         /\ ~c.is_used /\ c.expires_at > otpNow

\* C15: a reserve request whose duration is absent, zero or negative, or whose
\* locker id is absent, is answered InvalidInput at entry: no such request is
\* ever in flight, on its way to the store.
C15_InvalidReserveRejected ==
  \A p \in Procs :
    (InFlight(p) /\ req[p].kind = "reserve")
    => /\ ~Missing(req[p].lockerId)
       /\ ~IsNull(req[p].duration)
       /\ Val(req[p].duration) > 0

\* The reservation id exists, is ACTIVE and belongs to user u.
ExistsActiveOf(id, u) ==
  \E i \in DOMAIN reservations :
    i = id /\ reservations[i].status = "ACTIVE" /\ reservations[i].user_id = u

ReleaseCommits(p) ==
  /\ req[p].kind = "release"
  /\ pc[p] = "commit" /\ pc'[p] = "done" /\ result'[p] = "OK"

\* C18: a release that succeeds leaves the reservation COMPLETED with its
\* actual_end_time set and the locker AVAILABLE, and appends a history record
\* of the reservation whose total_hours is the whole hours, rounded up, from
\* start_time to that actual_end_time.
C18_ReleaseBookkeeping ==
  [][\A p \in Procs :
       ReleaseCommits(p)
       => LET r == reservations'[req[p].reservationId]
              h == history'[Len(history')]
          IN /\ r.status = "COMPLETED"
             /\ ~IsNull(r.actual_end_time)
             /\ lockers'[r.locker_id] = "AVAILABLE"
             /\ Len(history') = Len(history) + 1
             /\ h.reservation_id = req[p].reservationId
             /\ h.total_hours
                  = CeilHours(Val(r.actual_end_time) - r.start_time)]_vars

\* C19: the history record a release appends carries the total_cost the
\* reservation row has when the release commits.
C19_HistoryFinalCost ==
  [][\A p \in Procs :
       ReleaseCommits(p)
       => history'[Len(history')].total_cost
            = reservations'[req[p].reservationId].total_cost]_vars

\* C20: a reservation is created with total_cost = basePrice times the
\* duration in hours rounded up to a whole hour.
C20_InitialCostRoundsUp ==
  [][\A p \in Procs :
       (/\ req[p].kind = "reserve"
        /\ pc[p] = "commit" /\ pc'[p] = "done" /\ result'[p] = "OK"
        /\ Val(req[p].duration) > 0)
       => reservations'[Len(reservations')].total_cost
            = BasePrice * CeilHours(Val(req[p].duration))]_vars

\* C21: every access code is a 6-digit number, and no two reservations that
\* are ACTIVE at the same time hold the same access code.
C21_AccessCodeUnique ==
  /\ \A i \in DOMAIN reservations :
       reservations[i].access_code \in 100000..999999
  /\ \A i, j \in DOMAIN reservations :
       (/\ i # j
        /\ reservations[i].status = "ACTIVE"
        /\ reservations[j].status = "ACTIVE")
       => reservations[i].access_code # reservations[j].access_code

\* The reasons verifyOTP has to refuse the call r: no stored code has its
\* digits, phone and purpose; one has but its expires_at has passed; one has
\* but it is marked used.
WrongCode(r) == IssuedFor(r) = {}
ExpiredCode(r) ==
  IssuedFor(r) # {} /\ \A c \in IssuedFor(r) : c.expires_at <= otpNow
UsedCode(r) ==
  IssuedFor(r) # {} /\ \A c \in IssuedFor(r) : c.is_used

\* C22: verifyOTP only ever returns true or false, and a call refused because
\* the code is wrong, expired or already used returns the same value, false,
\* whichever the reason.
C22_RefusalsIndistinguishable ==
  [][\A p \in Procs :
       /\ vpc'[p] = "done" => vresult'[p] \in BOOLEAN
       /\ (Looks(p) /\ (WrongCode(vreq[p]) \/ ExpiredCode(vreq[p])
                          \/ UsedCode(vreq[p])))
          => vpc'[p] = "done" /\ vresult'[p] = FALSE]_vars

\* C22 witness: with no store failure, two calls have returned false, one for
\* a code that is used and not expired, the other for a code that is expired
\* and was never used.
C22_Witness ==
  \E p, q \in Procs :
    /\ faults = 0
    /\ vpc[p] = "done" /\ vresult[p] = FALSE
    /\ vpc[q] = "done" /\ vresult[q] = FALSE
    /\ \E c \in IssuedFor(vreq[p]) : c.is_used /\ c.expires_at > otpNow
    /\ UsedCode(vreq[p])
    /\ \E c \in IssuedFor(vreq[q]) : ~c.is_used /\ c.expires_at <= otpNow
    /\ ExpiredCode(vreq[q])

\* A code is generated in this step.
Generates == issued' = issued + 1

\* C23: generating a code removes or changes no stored code that is unexpired,
\* and a verify call whose lookup finds an unexpired, unused code with its
\* phone, digits and purpose goes on to accept it, however many codes were
\* generated since.
C23_PriorCodesStayValid ==
  [][/\ Generates
        => \A c \in codes : c.expires_at > otpNow => c \in codes'
     /\ \A p \in Procs :
          (/\ Looks(p)
           /\ \E c \in IssuedFor(vreq[p]) : ~c.is_used /\ c.expires_at > otpNow)
          => vpc'[p] = "v_update" \/ faults' = faults + 1]_vars

\* C23 witness: two codes were generated for the same phone and purpose; the
\* older one has been accepted, once, and the newer one is stored unexpired and
\* unused.
C23_Witness ==
  \E c, d \in codes :
    /\ c.code_id < d.code_id
    /\ c.phone = d.phone /\ c.purpose = d.purpose
    /\ c.is_used /\ accepted[c.code_id] = 1
    /\ ~d.is_used /\ d.expires_at > otpNow /\ accepted[d.code_id] = 0

\* C24: reservations are never deleted: a reservation that exists in one state
\* exists, with the same id, user and locker, in the next, whichever of
\* reserve, release or server start-up takes the step.
C24_ReservationsNeverDeleted ==
  [][\A i \in DOMAIN reservations :
       /\ i \in DOMAIN reservations'
       /\ reservations'[i].user_id = reservations[i].user_id
       /\ reservations'[i].locker_id = reservations[i].locker_id]_vars

\* Slot p's extend is answered 200 in this step, for reservation i.
ExtendSucceeds(p, i) ==
  /\ pc[p] = "e_update" /\ pc'[p] = "done" /\ result'[p] = "OK"
  /\ req[p].reservationId = Some(i)

\* C25: extension_count starts at 0, a step in which an extend of the
\* reservation is answered 200 increases it by exactly 1, whatever other
\* extend is in flight, and every other step leaves it as it is.
C25_ExtensionCountCounts ==
  [][/\ \A i \in DOMAIN reservations :
          /\ i \in DOMAIN reservations'
          /\ reservations'[i].extension_count =
               reservations[i].extension_count
                 + (IF \E p \in Procs : ExtendSucceeds(p, i) THEN 1 ELSE 0)
     /\ \A i \in DOMAIN reservations' \ DOMAIN reservations :
          reservations'[i].extension_count = 0]_vars

\* C25 witness: two extends of the same reservation ran concurrently, both were
\* answered 200, and the reservation counts two extensions.
C25_Witness ==
  \E p, q \in Procs :
    /\ AnsweredTogether(p, q)
    /\ req[p].kind = "extend" /\ req[q].kind = "extend"
    /\ req[p].reservationId = req[q].reservationId
    /\ result[p] = "OK" /\ result[q] = "OK"
    /\ reservations[Val(req[p].reservationId)].extension_count = 2

\* max(extended_end_time, expected_end_time), an unset extended_end_time
\* counting as absent.
LatestEnd(r) ==
  IF IsNull(r.extended_end_time) \/ Val(r.extended_end_time) < r.expected_end_time
    THEN r.expected_end_time
    ELSE Val(r.extended_end_time)

\* C26: the end time an extend computes from the row it reads is the later of
\* the row's extended_end_time and expected_end_time plus the hours it adds,
\* and that is the value its UPDATE stores in extended_end_time.
C26_ExtendFromLatestEnd ==
  [][\A p \in Procs :
       /\ (pc[p] = "e_select" /\ pc'[p] = "e_update")
          => loc'[p].newEndTime
               = LatestEnd(reservations[Val(req[p].reservationId)])
                   + ParseInt(req[p].additionalHours) * Hour
       /\ (pc[p] = "e_update" /\ pc'[p] = "done" /\ result'[p] = "OK")
          => reservations'[Val(req[p].reservationId)].extended_end_time
               = Some(loc[p].newEndTime)]_vars

\* Slot p's reserve commits and is answered 200 in this step.
ReserveCommits(p) ==
  /\ req[p].kind = "reserve"
  /\ pc[p] = "commit" /\ pc'[p] = "done" /\ result'[p] = "OK"

\* C27: a reserve that is answered 200 adds exactly one reservation, ACTIVE,
\* of the requesting user and on the requested locker, whose expected_end_time
\* is its start_time plus the requested duration, with extension_count 0 and no
\* extended or actual end time; the locker is OCCUPIED, and the expiresAt of
\* the response is the stored expected_end_time.
C27_ReserveCreatesReservation ==
  [][\A p \in Procs :
       ReserveCommits(p)
       => /\ Len(reservations') = Len(reservations) + 1
          /\ \A i \in DOMAIN reservations : reservations'[i] = reservations[i]
          /\ LET r == reservations'[Len(reservations')]
             IN /\ r.status = "ACTIVE"
                /\ r.user_id = req[p].userId
                /\ r.locker_id = Val(req[p].lockerId)
                /\ r.expected_end_time = r.start_time + Val(req[p].duration)
                /\ r.extension_count = 0
                /\ IsNull(r.extended_end_time)
                /\ IsNull(r.actual_end_time)
                /\ loc[p].expiresAt = r.expected_end_time
          /\ lockers'[Val(req[p].lockerId)] = "OCCUPIED"]_vars

\* A reserve or a release commits in this step.
ReserveOrReleaseCommits ==
  \E p \in Procs :
    /\ req[p].kind \in {"reserve", "release"}
    /\ pc[p] = "commit" /\ pc'[p] = "done"

\* C28: a locker's status changes only in the step that commits a reserve or a
\* release: every step of an extend, of a read-only query, of generating or
\* verifying a code and every locker status event leaves it as it is.
C28_StatusOnlyByReserveRelease ==
  [][lockers' # lockers => ReserveOrReleaseCommits]_vars

\* C28 witness: locker L1 is OCCUPIED under its reservation after an extend of
\* it and a read-only query were answered 200, a code was generated and a
\* status event of L1 was forwarded.
C28_Witness ==
  /\ lockers["L1"] = "OCCUPIED"
  /\ Len(reservations) = 1 /\ reservations[1].extension_count = 1
  /\ \E p \in Procs :
       pc[p] = "done" /\ req[p].kind \in ReadKinds /\ result[p] = "OK"
  /\ issued >= 1
  /\ "L1" \in emitted

\* C29: a store failure is reported as a failure: a reserve, extend or release
\* in which a store access fails is answered Error, and a verifyOTP call in
\* which one fails does not return a boolean, the result of a call that
\* reached the store.
C29_StoreFailureReported ==
  [][/\ \A p \in Procs :
          (\/ pc[p] = "rollback" /\ pc'[p] = "done"
           \/ faults' = faults + 1 /\ InFlight(p) /\ pc'[p] = "done")
          => result'[p] = "Error"
     /\ \A p \in Procs :
          (faults' = faults + 1 /\ VerifyInFlight(p) /\ vpc'[p] = "done")
          => vresult'[p] \notin BOOLEAN]_vars

\* C30: every reserve, extend and release request is eventually answered,
\* whichever store call fails (pool.connect, BEGIN, a write, COMMIT or
\* ROLLBACK), and is answered once: a response is only ever set on a request
\* that had none, and stays until the slot takes its next request.
C30_EveryRequestAnswered ==
  /\ \A p \in Procs :
       [](InFlight(p) => <>(pc[p] = "done" /\ result[p] # "none"))
  /\ [][\A p \in Procs :
          result'[p] # result[p]
          => \/ InFlight(p) /\ result[p] = "none" /\ pc'[p] = "done"
             \/ ops' = ops + 1]_vars

\* C30 witness: a request whose ROLLBACK failed has been answered Error.
C30_Witness ==
  \E p \in Procs :
    /\ pc[p] = "done" /\ result[p] = "Error"
    /\ DOMAIN loc[p] = {"undone", "rollbackFailed"}

\* What a one-hour reserve, extend or release leaves of its target when it
\* runs alone at time 0.
ReservedAlone(l, code) == NewReservation("u1", l, 0, Hour, BasePrice, code)
ExtendedAlone(r) ==
  [r EXCEPT !.extended_end_time = Some(r.expected_end_time + Hour),
            !.extension_count = 1,
            !.extension_cost = Some(BasePrice),
            !.total_cost = r.total_cost + BasePrice]
ReleasedAlone(r) ==
  [r EXCEPT !.status = "COMPLETED", !.actual_end_time = Some(0)]
HistoryAlone(i, r) ==
  [reservation_id |-> i, start_time |-> r.start_time, end_time |-> 0,
   total_hours |-> 0, total_cost |-> r.total_cost]

\* C31: requests on different lockers and different reservations, in any
\* interleaving, are all answered OK, never wait for each other, and leave of
\* each target what its request leaves when it runs alone.
C31_UnrelatedDoNotInterfere ==
  /\ \A p \in Procs : pc[p] = "done" => result[p] = "OK"
  /\ \A p \in Procs : InFlight(p) => ENABLED Continue(p)
  /\ \A i \in DOMAIN reservations :
       LET r == reservations[i]
           created == ReservedAlone(r.locker_id, r.access_code)
           records == {k \in DOMAIN history : history[k].reservation_id = i}
       IN /\ r \in {created, ExtendedAlone(created), ReleasedAlone(created)}
          /\ i = 1 <=> r.locker_id = "L1"
          /\ lockers[r.locker_id] =
               IF r.status = "ACTIVE" THEN "OCCUPIED" ELSE "AVAILABLE"
          /\ IF r.status = "ACTIVE"
               THEN records = {}
               ELSE /\ Cardinality(records) = 1
                    /\ \A k \in records : history[k] = HistoryAlone(i, created)
  /\ Len(reservations) = 1 => lockers["L2"] = "AVAILABLE"

\* C31 witness: a release of reservation 1 and a reserve of locker L2 ran
\* concurrently and both were answered OK.
C31_Witness ==
  \E p, q \in Procs :
    /\ AnsweredTogether(p, q)
    /\ req[p].kind = "release" /\ req[q].kind = "reserve"
    /\ result[p] = "OK" /\ result[q] = "OK"
    /\ reservations[1].status = "COMPLETED"
    /\ Len(reservations) = 2 /\ reservations[2].status = "ACTIVE"

\* C32: the code a request of p1's signup creates is stored unused, under that
\* phone and purpose, with expires_at one lifetime (10 minutes) after the time
\* of its creation; a verify call whose lookup runs strictly before the
\* expires_at of an unused code it presents goes on to accept it, and one whose
\* lookup runs at expires_at or later, for every stored code it presents,
\* returns false.
C32_TenMinuteLifetime ==
  [][/\ Generates
        => \E c \in codes' \ codes :
             /\ c.code_id = issued'
             /\ c.phone = "p1" /\ c.purpose = "SIGNUP"
             /\ ~c.is_used
             /\ c.expires_at = otpNow + OtpTtl
     /\ \A p \in Procs :
          Looks(p)
          => /\ (\E c \in IssuedFor(vreq[p]) : ~c.is_used /\ otpNow < c.expires_at)
                => vpc'[p] = "v_update" \/ faults' = faults + 1
             /\ (\A c \in IssuedFor(vreq[p]) : otpNow >= c.expires_at)
                => vpc'[p] = "done" /\ vresult'[p] = FALSE]_vars

\* C32 witness: one code was accepted before its expires_at, and a call that
\* presented another, never used, was refused with the clock at its expires_at.
C32_Witness ==
  /\ faults = 0
  /\ \E c \in codes : c.is_used /\ accepted[c.code_id] = 1
  /\ \E p \in Procs :
       /\ vpc[p] = "done" /\ vresult[p] = FALSE
       /\ IssuedFor(vreq[p]) # {}
       /\ \A c \in IssuedFor(vreq[p]) :
            ~c.is_used /\ accepted[c.code_id] = 0 /\ c.expires_at = otpNow

\* totalCost as reserve computed it: base_price times the hours between
\* start_time and expected_end_time.
InitialCost(r) == BasePrice * ((r.expected_end_time - r.start_time) \div Hour)

\* C33: every reservation's total_cost is its initial cost plus its
\* extension_cost, an unset extension_cost counting as 0.
C33_TotalIsInitialPlusExtensions ==
  \A i \in DOMAIN reservations :
    reservations[i].total_cost
      = InitialCost(reservations[i]) + Coalesce0(reservations[i].extension_cost)

\* C34: when two one-hour extends of the same reservation, still ACTIVE and
\* not extended otherwise, ran concurrently and were both answered OK, the end
\* time is two hours past expected_end_time, total_cost is the initial cost
\* plus twice the base price, and extension_count is 2.
C34_ConcurrentExtendsBothApplied ==
  \A p, q \in Procs :
    (/\ AnsweredTogether(p, q)
     /\ req[p].kind = "extend" /\ req[q].kind = "extend"
     /\ req[p].reservationId = req[q].reservationId
     /\ result[p] = "OK" /\ result[q] = "OK"
     /\ reservations[Val(req[p].reservationId)].status = "ACTIVE")
    => LET r == reservations[Val(req[p].reservationId)]
       IN /\ r.extension_count = 2
          /\ EndTimeOf(r) = r.expected_end_time + 2 * Hour
          /\ r.total_cost = InitialCost(r) + 2 * BasePrice

\* The history records of reservation i.
RecordsOf(i) == {k \in DOMAIN history : history[k].reservation_id = i}

\* C35: the history holds exactly one record for every COMPLETED reservation
\* and none for an ACTIVE one.
C35_OneHistoryRecord ==
  \A i \in DOMAIN reservations :
    Cardinality(RecordsOf(i))
      = IF reservations[i].status = "COMPLETED" THEN 1 ELSE 0

\* The columns of a reservations row that are set at creation, those an
\* extend writes and those a release writes.
IdentityOf(r) ==
  <<r.user_id, r.locker_id, r.start_time, r.expected_end_time, r.access_code>>
ExtensionOf(r) ==
  <<r.extended_end_time, r.extension_count, r.extension_cost, r.total_cost>>
CompletionOf(r) == <<r.status, r.actual_end_time>>

\* C36: no step changes the user_id, locker_id, start_time, expected_end_time
\* or access_code of a reservation; a step of an extend leaves its status and
\* actual_end_time as they are, and a step of a release leaves its
\* extended_end_time, extension_count, extension_cost and total_cost as they
\* are.
C36_IdentityFixed ==
  [][\A i \in DOMAIN reservations :
       /\ i \in DOMAIN reservations'
       /\ IdentityOf(reservations'[i]) = IdentityOf(reservations[i])
       /\ \A p \in Procs :
            Steps(p)
            => /\ req[p].kind = "extend"
                  => CompletionOf(reservations'[i]) = CompletionOf(reservations[i])
               /\ req[p].kind = "release"
                  => ExtensionOf(reservations'[i]) = ExtensionOf(reservations[i])]_vars

\* C36 witness: a reservation has been extended and then released, and its
\* identity fields are those reserve gave it.
C36_Witness ==
  \E i \in DOMAIN reservations :
    /\ reservations[i].extension_count = 1
    /\ reservations[i].status = "COMPLETED"
    /\ RecordsOf(i) # {}
    /\ IdentityOf(reservations[i]) = <<"u1", "L1", 0, Hour, 100000>>

\* The end time of reservation r, expected or extended, has passed.
Overdue(r) ==
  (IF IsNull(r.extended_end_time) THEN r.expected_end_time
                                  ELSE Val(r.extended_end_time)) < now

\* Slot p's release of reservation i commits in this step.
ReleaseOfCommits(p, i) ==
  /\ req[p].kind = "release" /\ req[p].reservationId = i
  /\ pc[p] = "commit" /\ pc'[p] = "done"

\* C37: a step in which only the clock moves changes no row; an overdue ACTIVE
\* reservation stays ACTIVE, and its locker OCCUPIED, in every step but the
\* commit of a release of it; and an extend or a release whose lookup finds
\* its reservation ACTIVE, its own and overdue goes on as for any other.
C37_TimeChangesNothing ==
  [][/\ now' # now => UNCHANGED dbvars
     /\ \A i \in DOMAIN reservations :
          (/\ reservations[i].status = "ACTIVE" /\ Overdue(reservations[i])
           /\ lockers[reservations[i].locker_id] = "OCCUPIED"
           /\ ~\E p \in Procs : ReleaseOfCommits(p, i))
          => /\ reservations'[i].status = "ACTIVE"
             /\ lockers'[reservations[i].locker_id] = "OCCUPIED"
     /\ \A p \in Procs :
          (/\ pc[p] = "e_select" /\ pc'[p] # "e_select"
           /\ ExistsActiveOf(Val(req[p].reservationId), req[p].userId)
           /\ Overdue(reservations[Val(req[p].reservationId)]))
          => pc'[p] = "e_update"
     /\ \A p \in Procs :
          (/\ pc[p] = "l_select" /\ pc'[p] # "l_select"
           /\ ExistsActiveOf(req[p].reservationId, req[p].userId)
           /\ Overdue(reservations[req[p].reservationId]))
          => pc'[p] = "connect"]_vars

\* C37 witness: the reservation that ended an hour before time 0 was extended
\* by one hour, to time 0, and released after that time.
C37_Witness ==
  /\ reservations[1].status = "COMPLETED"
  /\ reservations[1].extension_count = 1
  /\ reservations[1].extended_end_time = Some(0)
  /\ reservations[1].actual_end_time = Some(1)
  /\ lockers["L1"] = "AVAILABLE"

\* A request gives back, once, the one connection it acquired, and holds none
\* once it is answered.
ReleasedOnce(p) ==
  /\ conn[p].acquired <= 1
  /\ conn[p].released <= conn[p].acquired
  /\ ~InFlight(p) => conn[p].released = conn[p].acquired

\* C38 as stated: every connection a reserve or release acquired is released
\* exactly once, and a transaction that was begun has ended, when the
\* connection is released, with exactly one COMMIT or one ROLLBACK attempt,
\* never both and never neither.
C38_OneCommitOrRollback ==
  \A p \in Procs :
    /\ ReleasedOnce(p)
    /\ (conn[p].begun = 1 /\ conn[p].released = 1)
       => conn[p].commits + conn[p].rollbacks = 1

\* C38 amended: every connection a reserve or release acquired is released
\* exactly once, and a transaction that was begun has ended, when the
\* connection is released, with at most one COMMIT attempt and at most one
\* ROLLBACK attempt, at least one of the two: the ROLLBACK is attempted exactly
\* when a statement of the transaction, the COMMIT included, failed, in which
\* case the request is answered Error; otherwise the COMMIT was attempted and
\* the request is answered OK.
C38_CommitThenRollbackOnFailure ==
  \A p \in Procs :
    /\ ReleasedOnce(p)
    /\ (conn[p].begun = 1 /\ conn[p].released = 1)
       => /\ conn[p].commits <= 1 /\ conn[p].rollbacks <= 1
          /\ conn[p].commits + conn[p].rollbacks >= 1
          /\ conn[p].rollbacks = 1 <=> result[p] = "Error"
          /\ conn[p].rollbacks = 0 <=> result[p] = "OK"
          /\ result[p] = "OK" => conn[p].commits = 1

\* C38 witness: a request whose COMMIT failed sent the ROLLBACK after it, gave
\* its connection back and was answered Error.
C38_Witness ==
  \E p \in Procs :
    /\ pc[p] = "done" /\ result[p] = "Error"
    /\ conn[p] = [acquired |-> 1, begun |-> 1, commits |-> 1, rollbacks |-> 1,
                  released |-> 1]

====
